---- MODULE Spec2Model ----
(***************************************************************************)
(* A model of core/constants.py (the constants loader and the Constants    *)
(* table) and of core/controllers/learner_group.py (the learner-group      *)
(* request handlers).  The domain services the handlers call               *)
(* (learner_group_services, learner_group_fetchers, user_services,         *)
(* story_fetchers, subtopic_page_services) are not part of the sources at  *)
(* hand; they are modelled from the specification and kept apart from the  *)
(* handlers, which are translated from the code.                           *)
(***************************************************************************)
EXTENDS Integers, Sequences, FiniteSets, TLC

VARIABLES
    learner_groups,     \* the stored learner groups: group id -> group
    sharing,            \* progress-sharing permission per <<user id, group id>>
    progress,           \* stored progress level per user id
    constants,          \* the table constants.constants
    release_constants,  \* the table constants.release_constants
    files,              \* per asset, its direct and its packaged contents
    pc,                 \* position of the process: start-up steps, then serving
    req,                \* the request (or operation) handled last
    resp,               \* what it answered
    calls,              \* the service calls it made, in order
    deleted,            \* history: the group ids a DELETE removed and no
                        \* create has used since
    LEARNER_GROUPS_ARE_ENABLED,
                        \* config_domain.LEARNER_GROUPS_ARE_ENABLED.value
    creator             \* history: per group id a create used and no DELETE
                        \* removed since, the user who made that request

vars == <<learner_groups, sharing, progress, constants, release_constants,
          files, pc, req, resp, calls, deleted, LEARNER_GROUPS_ARE_ENABLED,
          creator>>

(***************************************************************************)
(* Python values                                                           *)
(***************************************************************************)

\* Python's None, where the code passes it in place of a string.
None == "None"

\* The elements of a sequence.
Range(s) == {s[i] : i \in DOMAIN s}

\* str.lower() on the usernames of the model.
LowerTable == [Alice |-> "alice", ALICE |-> "alice", BOB |-> "bob"]

lower(s) == IF s \in DOMAIN LowerTable THEN LowerTable[s] ELSE s

(***************************************************************************)
(* Bounds of the model                                                     *)
(***************************************************************************)

\* How many request payloads create and update draw from.
NumPayloads == 3

\* The learner group ids requests name.
GroupIds == {"gA", "gB"}

\* The registered users (user_services' store; no handler here changes it).
UserSettingsModels ==
    { [user_id |-> "uid_alice", username |-> "Alice",
       profile_picture_data_url |-> "pic_alice"],
      [user_id |-> "uid_bob", username |-> "bob",
       profile_picture_data_url |-> "pic_bob"],
      [user_id |-> "uid_carol", username |-> "carol",
       profile_picture_data_url |-> "pic_carol"] }

UserIds == {u.user_id : u \in UserSettingsModels}

\* The users who send requests (each has passed can_access_learner_groups).
Callers == {"uid_alice", "uid_bob"}

\* The usernames requests submit: stored spellings, other spellings and a
\* username nobody has.
Usernames == {"Alice", "ALICE", "bob", "carol", "ghost"}

UsernameListPool ==
    << <<"bob">>, <<>>, <<"carol", "ghost">>, <<"ALICE">>, <<"bob", "carol">> >>

\* The i-th element of a pool, wrapping around.
Pick(pool, i) == pool[((i - 1) % Len(pool)) + 1]

\* The normalized payload of a create or update request (LEARNER_GROUP_SCHEMA).
Payload(i) ==
    [ group_title |-> Pick(<<"t1", "t2", "t3", "t4">>, i),
      group_description |-> Pick(<<"d1", "d2", "d3", "d4">>, i),
      student_usernames |-> Pick(UsernameListPool, i),
      invited_student_usernames |-> Pick(UsernameListPool, i + 2),
      subtopic_page_ids |-> Pick(<< <<"sp1">>, <<>>, <<"sp2", "sp1">> >>, i),
      story_ids |-> Pick(<< <<>>, <<"s1">>, <<"s2", "s1">> >>, i + 1) ]

Payloads == {Payload(i) : i \in 1..NumPayloads}

(***************************************************************************)
(* The domain services, modelled from the specification                    *)
(***************************************************************************)

\* What a user lookup yields when there is no such user (None in the code).
NoUser == [user_id |-> None, username |-> None, profile_picture_data_url |-> None]

\* user_services.get_user_settings_from_username: the user whose username is
\* the given one, letter case aside; NoUser when there is none.
get_user_settings_from_username(username) ==
    LET found == {u \in UserSettingsModels : lower(u.username) = lower(username)}
    IN  IF found = {} THEN NoUser ELSE CHOOSE u \in found : TRUE

\* user_services.get_multi_user_ids_from_usernames: position by position, the
\* id of the user of that name, None where there is none.
get_multi_user_ids_from_usernames(usernames) ==
    [i \in 1..Len(usernames) |->
        get_user_settings_from_username(usernames[i]).user_id]

\* user_services.get_usernames: position by position, the stored username of
\* that user id, None where there is no such user.
get_usernames(user_ids) ==
    [i \in 1..Len(user_ids) |->
        LET found == {u \in UserSettingsModels : u.user_id = user_ids[i]}
        IN  IF found = {} THEN None ELSE (CHOOSE u \in found : TRUE).username]

\* What a group fetch yields when there is no such group (None in the code).
NoGroup ==
    [ group_id |-> None, title |-> None, description |-> None,
      facilitator_user_ids |-> <<>>, student_user_ids |-> <<>>,
      invited_student_user_ids |-> <<>>, subtopic_page_ids |-> <<>>,
      story_ids |-> <<>> ]

\* learner_group_fetchers.get_learner_group_by_id.
get_learner_group_by_id(store, group_id) ==
    IF group_id \in DOMAIN store THEN store[group_id] ELSE NoGroup

\* learner_group_services.is_user_facilitator: the user is in the facilitator
\* list of the stored group (a group that is not stored has no facilitator).
is_user_facilitator(store, user_id, group_id) ==
    /\ group_id \in DOMAIN store
    /\ user_id \in Range(store[group_id].facilitator_user_ids)

\* The store with group_id bound to group.
StoreWith(store, group_id, group) ==
    [g \in DOMAIN store \cup {group_id} |->
        IF g = group_id THEN group ELSE store[g]]

\* learner_group_services.create_learner_group: persists a new group with
\* the given fields and no students.
create_learner_group(store, group_id, title, description, facilitator_ids, invited_student_ids, subtopic_page_ids, story_ids) ==
    StoreWith(store, group_id,
        [ group_id |-> group_id, title |-> title, description |-> description,
          facilitator_user_ids |-> facilitator_ids,
          student_user_ids |-> <<>>,
          invited_student_user_ids |-> invited_student_ids,
          subtopic_page_ids |-> subtopic_page_ids,
          story_ids |-> story_ids ])

\* learner_group_services.update_learner_group: replaces every field of the
\* stored group by the given one.
update_learner_group(store, group_id, title, description, facilitator_ids, student_ids, invited_student_ids, subtopic_page_ids, story_ids) ==
    StoreWith(store, group_id,
        [ group_id |-> group_id, title |-> title, description |-> description,
          facilitator_user_ids |-> facilitator_ids,
          student_user_ids |-> student_ids,
          invited_student_user_ids |-> invited_student_ids,
          subtopic_page_ids |-> subtopic_page_ids,
          story_ids |-> story_ids ])

\* learner_group_services.remove_learner_group.
remove_learner_group(store, group_id) ==
    [g \in DOMAIN store \ {group_id} |-> store[g]]

\* learner_group_services.can_user_be_invited: (is_valid, error_message); a
\* user who is already a student of the group, or already invited to it,
\* cannot be invited again.
can_user_be_invited(store, user_id, username, group_id) ==
    LET group == get_learner_group_by_id(store, group_id)
    IN  IF user_id \in Range(group.student_user_ids)
        THEN [valid |-> FALSE,
              error |-> <<"User with username ", username,
                          " is already a student of the group.">>]
        ELSE IF user_id \in Range(group.invited_student_user_ids)
        THEN [valid |-> FALSE,
              error |-> <<"User with username ", username,
                          " has already been invited to the group.">>]
        ELSE [valid |-> TRUE, error |-> <<>>]

\* learner_group_fetchers.can_multi_students_share_progress: position by
\* position, the progress-sharing permission of that user for the group.
can_multi_students_share_progress(shr, user_ids, group_id) ==
    [i \in 1..Len(user_ids) |->
        /\ <<user_ids[i], group_id>> \in DOMAIN shr
        /\ shr[<<user_ids[i], group_id>>]]

\* story_fetchers.get_multi_users_progress_in_stories: per given user id, one
\* progress record per story id.
get_multi_users_progress_in_stories(prog, user_ids, story_ids) ==
    [u \in Range(user_ids) |->
        [i \in 1..Len(story_ids) |->
            [id |-> story_ids[i], completed |-> prog[u].stories]]]

\* subtopic_page_services.get_multi_users_subtopic_pages_progress: per given
\* user id, one progress record per subtopic page id.
get_multi_users_subtopic_pages_progress(prog, user_ids, subtopic_page_ids) ==
    [u \in Range(user_ids) |->
        [i \in 1..Len(subtopic_page_ids) |->
            [id |-> subtopic_page_ids[i], mastery |-> prog[u].subtopics]]]

\* A service call, as the handlers' call log records it: the service and the
\* usernames or user ids passed to it.
Call(svc, args) == [svc |-> svc, args |-> args]

\* The services that write to the learner-group store.
MutatingServices ==
    {"create_learner_group", "update_learner_group", "remove_learner_group"}

(***************************************************************************)
(* The handlers of core/controllers/learner_group.py                      *)
(***************************************************************************)

\* What a handler did: the status it ended with, the JSON body it rendered
\* (or the exception's message), the service calls it made and the store it left.
Result(status, body, log, store) ==
    [status |-> status, body |-> body, calls |-> log, store |-> store]

\* The group representation create, update and the facilitator view render.
LearnerGroupDict(learner_group) ==
    [ id |-> learner_group.group_id,
      title |-> learner_group.title,
      description |-> learner_group.description,
      facilitator_usernames |->
          get_usernames(learner_group.facilitator_user_ids),
      student_usernames |-> get_usernames(learner_group.student_user_ids),
      invited_student_usernames |->
          get_usernames(learner_group.invited_student_user_ids),
      subtopic_page_ids |-> learner_group.subtopic_page_ids,
      story_ids |-> learner_group.story_ids ]

\* A faulty create: it resolves the submitted student_usernames where the
\* code resolves the invited ones.
CreateLearnerGroupHandler_post_wrong_field(store, user_id, payload, new_learner_grp_id) ==
    LET invited_student_ids ==
            get_multi_user_ids_from_usernames(payload.student_usernames)
        store2 == create_learner_group(
            store, new_learner_grp_id, payload.group_title,
            payload.group_description, <<user_id>>, invited_student_ids,
            payload.subtopic_page_ids, payload.story_ids)
    IN  Result("OK", LearnerGroupDict(store2[new_learner_grp_id]),
               << Call("get_multi_user_ids_from_usernames",
                       payload.student_usernames),
                  Call("get_new_learner_group_id", <<>>),
                  Call("create_learner_group",
                       <<user_id>> \o invited_student_ids) >>,
               store2)

\* CreateLearnerGroupHandler.post; new_learner_grp_id is what
\* get_new_learner_group_id returned.
CreateLearnerGroupHandler_post(store, user_id, payload, new_learner_grp_id) ==
    LET invited_student_ids ==
            get_multi_user_ids_from_usernames(payload.invited_student_usernames)
        store2 == create_learner_group(
            store, new_learner_grp_id, payload.group_title,
            payload.group_description, <<user_id>>, invited_student_ids,
            payload.subtopic_page_ids, payload.story_ids)
    IN  Result("OK", LearnerGroupDict(store2[new_learner_grp_id]),
               << Call("get_multi_user_ids_from_usernames",
                       payload.invited_student_usernames),
                  Call("get_new_learner_group_id", <<>>),
                  Call("create_learner_group",
                       <<user_id>> \o invited_student_ids) >>,
               store2)

\* A faulty update: it keeps the students the group had and adds the
\* submitted ones.
LearnerGroupHandler_put_keeps_students(store, user_id, learner_group_id, payload) ==
    IF ~is_user_facilitator(store, user_id, learner_group_id)
    THEN Result("UnauthorizedUserException",
                [error |-> "You are not a facilitator of this learner group."],
                << Call("is_user_facilitator", <<user_id>>) >>, store)
    ELSE
    LET student_ids ==
            store[learner_group_id].student_user_ids
                \o get_multi_user_ids_from_usernames(payload.student_usernames)
        invited_student_ids ==
            get_multi_user_ids_from_usernames(payload.invited_student_usernames)
        store2 == update_learner_group(
            store, learner_group_id, payload.group_title,
            payload.group_description, <<user_id>>, student_ids,
            invited_student_ids, payload.subtopic_page_ids, payload.story_ids)
    IN  Result("OK", LearnerGroupDict(store2[learner_group_id]),
               << Call("is_user_facilitator", <<user_id>>),
                  Call("get_multi_user_ids_from_usernames",
                       payload.student_usernames),
                  Call("get_multi_user_ids_from_usernames",
                       payload.invited_student_usernames),
                  Call("update_learner_group",
                       <<user_id>> \o student_ids \o invited_student_ids) >>,
               store2)

\* A faulty update: it updates without asking whether the caller is a
\* facilitator of the group.
LearnerGroupHandler_put_unchecked(store, user_id, learner_group_id, payload) ==
    LET student_ids ==
            get_multi_user_ids_from_usernames(payload.student_usernames)
        invited_student_ids ==
            get_multi_user_ids_from_usernames(payload.invited_student_usernames)
        store2 == update_learner_group(
            store, learner_group_id, payload.group_title,
            payload.group_description, <<user_id>>, student_ids,
            invited_student_ids, payload.subtopic_page_ids, payload.story_ids)
    IN  Result("OK", LearnerGroupDict(store2[learner_group_id]),
               << Call("get_multi_user_ids_from_usernames",
                       payload.student_usernames),
                  Call("get_multi_user_ids_from_usernames",
                       payload.invited_student_usernames),
                  Call("update_learner_group",
                       <<user_id>> \o student_ids \o invited_student_ids) >>,
               store2)

\* LearnerGroupHandler.put.
LearnerGroupHandler_put(store, user_id, learner_group_id, payload) ==
    IF ~is_user_facilitator(store, user_id, learner_group_id)
    THEN Result("UnauthorizedUserException",
                [error |-> "You are not a facilitator of this learner group."],
                << Call("is_user_facilitator", <<user_id>>) >>, store)
    ELSE
    LET student_ids ==
            get_multi_user_ids_from_usernames(payload.student_usernames)
        invited_student_ids ==
            get_multi_user_ids_from_usernames(payload.invited_student_usernames)
        store2 == update_learner_group(
            store, learner_group_id, payload.group_title,
            payload.group_description, <<user_id>>, student_ids,
            invited_student_ids, payload.subtopic_page_ids, payload.story_ids)
    IN  Result("OK", LearnerGroupDict(store2[learner_group_id]),
               << Call("is_user_facilitator", <<user_id>>),
                  Call("get_multi_user_ids_from_usernames",
                       payload.student_usernames),
                  Call("get_multi_user_ids_from_usernames",
                       payload.invited_student_usernames),
                  Call("update_learner_group",
                       <<user_id>> \o student_ids \o invited_student_ids) >>,
               store2)

\* A faulty delete: it answers success to a facilitator without removing the
\* group.
LearnerGroupHandler_delete_keeps_group(store, user_id, learner_group_id) ==
    IF ~is_user_facilitator(store, user_id, learner_group_id)
    THEN Result("UnauthorizedUserException",
                [error |-> "You do not have the rights to delete this learner group as you are not its facilitator."],
                << Call("is_user_facilitator", <<user_id>>) >>, store)
    ELSE Result("OK", [success |-> TRUE],
                << Call("is_user_facilitator", <<user_id>>) >>, store)

\* LearnerGroupHandler.delete.
LearnerGroupHandler_delete(store, user_id, learner_group_id) ==
    IF ~is_user_facilitator(store, user_id, learner_group_id)
    THEN Result("UnauthorizedUserException",
                [error |-> "You do not have the rights to delete this learner group as you are not its facilitator."],
                << Call("is_user_facilitator", <<user_id>>) >>, store)
    ELSE Result("OK", [success |-> TRUE],
                << Call("is_user_facilitator", <<user_id>>),
                   Call("remove_learner_group", <<>>) >>,
                remove_learner_group(store, learner_group_id))

\* FacilitatorLearnerGroupViewHandler.get.
FacilitatorLearnerGroupViewHandler_get(store, user_id, learner_group_id) ==
    IF ~is_user_facilitator(store, user_id, learner_group_id)
    THEN Result("UnauthorizedUserException",
                [error |-> "You are not a facilitator of this learner group."],
                << Call("is_user_facilitator", <<user_id>>) >>, store)
    ELSE Result("OK",
                LearnerGroupDict(get_learner_group_by_id(store, learner_group_id)),
                << Call("is_user_facilitator", <<user_id>>),
                   Call("get_learner_group_by_id", <<>>) >>,
                store)

\* A faulty selection: every requested user id, whatever the permissions.
students_with_progress_sharing_on_all(user_ids, flags) == user_ids

\* The elements of user_ids at the positions where flags is true, in order
\* (the loop that builds students_with_progress_sharing_on).
RECURSIVE students_with_progress_sharing_on(_, _)
students_with_progress_sharing_on(user_ids, flags) ==
    IF user_ids = <<>> THEN <<>>
    ELSE (IF Head(flags) THEN <<Head(user_ids)>> ELSE <<>>)
         \o students_with_progress_sharing_on(Tail(user_ids), Tail(flags))

\* LearnerGroupStudentProgressHandler.get once the group is known to exist:
\* the permissions, the two progress fetches and the merged records.
students_progress_view(store, shr, prog, learner_group_id, student_usernames) ==
    LET student_user_ids == get_multi_user_ids_from_usernames(student_usernames)
        learner_group == get_learner_group_by_id(store, learner_group_id)
        progress_sharing_permissions ==
            can_multi_students_share_progress(
                shr, student_user_ids, learner_group_id)
        sharing_on ==
            students_with_progress_sharing_on(
                student_user_ids, progress_sharing_permissions)
        stories_progresses ==
            get_multi_users_progress_in_stories(
                prog, sharing_on, learner_group.story_ids)
        subtopic_pages_progresses ==
            get_multi_users_subtopic_pages_progress(
                prog, sharing_on, learner_group.subtopic_page_ids)
        all_students_progress ==
            [i \in 1..Len(student_user_ids) |->
                [ username |-> student_usernames[i],
                  progress_sharing_is_turned_on |->
                      progress_sharing_permissions[i],
                  stories_progress |->
                      IF ~progress_sharing_permissions[i] THEN <<>>
                      ELSE stories_progresses[student_user_ids[i]],
                  subtopic_pages_progress |->
                      IF ~progress_sharing_permissions[i] THEN <<>>
                      ELSE subtopic_pages_progresses[student_user_ids[i]] ]]
    IN  Result("OK", [students_progress |-> all_students_progress],
               << Call("get_multi_user_ids_from_usernames", student_usernames),
                  Call("get_learner_group_by_id", <<>>),
                  Call("can_multi_students_share_progress", student_user_ids),
                  Call("get_multi_users_progress_in_stories", sharing_on),
                  Call("get_multi_users_subtopic_pages_progress", sharing_on) >>,
               store)

\* A faulty progress view: it does not look whether the group exists.
LearnerGroupStudentProgressHandler_get_unchecked(store, shr, prog, learner_group_id, student_usernames) ==
    students_progress_view(store, shr, prog, learner_group_id, student_usernames)

\* LearnerGroupStudentProgressHandler.get.
LearnerGroupStudentProgressHandler_get(store, shr, prog, learner_group_id, student_usernames) ==
    IF get_learner_group_by_id(store, learner_group_id).group_id = None
    THEN Result("InvalidInputException",
                [error |-> "No such learner group exists."],
                << Call("get_multi_user_ids_from_usernames", student_usernames),
                   Call("get_learner_group_by_id", <<>>) >>,
                store)
    ELSE students_progress_view(
             store, shr, prog, learner_group_id, student_usernames)

\* A faulty dashboard page: it renders its template whatever the
\* configuration says.
FacilitatorDashboardPage_get_ungated(store, enabled) ==
    Result("OK", [template |-> "facilitator-dashboard-page.mainpage.html"],
           <<>>, store)

\* FacilitatorDashboardPage.get; enabled is
\* config_domain.LEARNER_GROUPS_ARE_ENABLED.value.  The exception is raised
\* without a message.
FacilitatorDashboardPage_get(store, enabled) ==
    IF ~enabled
    THEN Result("PageNotFoundException", [error |-> ""], <<>>, store)
    ELSE Result("OK", [template |-> "facilitator-dashboard-page.mainpage.html"],
                <<>>, store)

\* CreateLearnerGroupPage.get.
CreateLearnerGroupPage_get(store, enabled) ==
    IF ~enabled
    THEN Result("PageNotFoundException", [error |-> ""], <<>>, store)
    ELSE Result("OK", [template |-> "create-learner-group-page.mainpage.html"],
                <<>>, store)

\* self.username of the handler: the stored username of the calling user.
username_of(user_id) ==
    (CHOOSE u \in UserSettingsModels : u.user_id = user_id).username

\* A faulty search: it does not compare the searched username with the
\* caller's.
LearnerGroupSearchStudentHandler_get_no_self_check(store, caller_id, username, learner_group_id) ==
    LET user_settings == get_user_settings_from_username(username)
        invitation == can_user_be_invited(
            store, user_settings.user_id, user_settings.username,
            learner_group_id)
        lookup == Call("get_user_settings_from_username", <<username>>)
    IN  IF user_settings.user_id = None
        THEN Result("OK",
                    [ username |-> username,
                      profile_picture_data_url |-> "",
                      error |-> <<"User with username ", username,
                                  " does not exist.">> ],
                    <<lookup>>, store)
        ELSE Result("OK",
                    [ username |-> user_settings.username,
                      profile_picture_data_url |->
                          IF invitation.valid
                          THEN user_settings.profile_picture_data_url ELSE "",
                      error |-> invitation.error ],
                    << lookup,
                       Call("can_user_be_invited", <<user_settings.user_id>>) >>,
                    store)

\* A faulty search: it raises for a username no user has, and otherwise
\* answers as the code does.
LearnerGroupSearchStudentHandler_get_raising(store, caller_id, username, learner_group_id) ==
    LET user_settings == get_user_settings_from_username(username)
        invitation == can_user_be_invited(
            store, user_settings.user_id, user_settings.username,
            learner_group_id)
        lookup == Call("get_user_settings_from_username", <<username>>)
    IN  IF user_settings.user_id = None
        THEN Result("InvalidInputException",
                    [error |-> <<"User with username ", username,
                                 " does not exist.">>],
                    <<lookup>>, store)
        ELSE IF lower(username_of(caller_id)) = lower(username)
        THEN Result("OK",
                    [ username |-> user_settings.username,
                      profile_picture_data_url |-> "",
                      error |-> <<"You cannot invite yourself to the group">> ],
                    <<lookup>>, store)
        ELSE Result("OK",
                    [ username |-> user_settings.username,
                      profile_picture_data_url |->
                          IF invitation.valid
                          THEN user_settings.profile_picture_data_url ELSE "",
                      error |-> invitation.error ],
                    << lookup,
                       Call("can_user_be_invited", <<user_settings.user_id>>) >>,
                    store)

\* LearnerGroupSearchStudentHandler.get.  An error string is the sequence of
\* its pieces (the format string around the formatted username); the empty
\* string is the empty sequence.
LearnerGroupSearchStudentHandler_get(store, caller_id, username, learner_group_id) ==
    LET user_settings == get_user_settings_from_username(username)
        invitation == can_user_be_invited(
            store, user_settings.user_id, user_settings.username,
            learner_group_id)
        lookup == Call("get_user_settings_from_username", <<username>>)
    IN  IF user_settings.user_id = None
        THEN Result("OK",
                    [ username |-> username,
                      profile_picture_data_url |-> "",
                      error |-> <<"User with username ", username, " does not exist.">> ],
                    <<lookup>>, store)
        ELSE IF lower(username_of(caller_id)) = lower(username)
        THEN Result("OK",
                    [ username |-> user_settings.username,
                      profile_picture_data_url |-> "",
                      error |-> <<"You cannot invite yourself to the group">> ],
                    <<lookup>>, store)
        ELSE IF ~invitation.valid
        THEN Result("OK",
                    [ username |-> user_settings.username,
                      profile_picture_data_url |-> "",
                      error |-> invitation.error ],
                    << lookup,
                       Call("can_user_be_invited", <<user_settings.user_id>>) >>,
                    store)
        ELSE Result("OK",
                    [ username |-> user_settings.username,
                      profile_picture_data_url |->
                          user_settings.profile_picture_data_url,
                      error |-> <<>> ],
                    << lookup,
                       Call("can_user_be_invited", <<user_settings.user_id>>) >>,
                    store)

(***************************************************************************)
(* The server: one action per request                                      *)
(***************************************************************************)

\* A request, as the state records it.
Request(handler, user_id, learner_group_id, args) ==
    [ handler |-> handler, user_id |-> user_id,
      learner_group_id |-> learner_group_id, args |-> args ]

\* The state after a handler ended with result r; removed and created are
\* the group ids a DELETE answered success for and a create used.
Respond(r, removed, created) ==
    /\ learner_groups' = r.store
    /\ deleted' = (deleted \cup removed) \ created
    /\ creator' = [g \in (DOMAIN creator \ removed) \cup created |->
                       IF g \in created THEN req'.user_id ELSE creator[g]]
    /\ resp' = [status |-> r.status, body |-> r.body]
    /\ calls' = r.calls
    /\ UNCHANGED <<sharing, progress, constants, release_constants, files, pc,
                   LEARNER_GROUPS_ARE_ENABLED>>

\* POST to CreateLearnerGroupHandler; get_new_learner_group_id returns an id
\* no stored group has.
CreateLearnerGroup ==
    /\ pc = "serving"
    /\ \E user_id \in Callers, payload \in Payloads,
          new_id \in GroupIds \ DOMAIN learner_groups :
            /\ req' = Request("create", user_id, new_id, payload)
            /\ Respond(CreateLearnerGroupHandler_post(
                           learner_groups, user_id, payload, new_id),
                       {}, {new_id})

\* PUT to LearnerGroupHandler.
UpdateLearnerGroup ==
    /\ pc = "serving"
    /\ \E user_id \in Callers, group_id \in GroupIds, payload \in Payloads :
            /\ req' = Request("put", user_id, group_id, payload)
            /\ Respond(LearnerGroupHandler_put(
                           learner_groups, user_id, group_id, payload),
                       {}, {})

\* DELETE to LearnerGroupHandler.
DeleteLearnerGroup ==
    /\ pc = "serving"
    /\ \E user_id \in Callers, group_id \in GroupIds :
            /\ req' = Request("delete", user_id, group_id, <<>>)
            /\ LET r == LearnerGroupHandler_delete(
                            learner_groups, user_id, group_id)
               IN  Respond(r, IF r.status = "OK" THEN {group_id} ELSE {}, {})

\* GET to FacilitatorLearnerGroupViewHandler.
ViewLearnerGroup ==
    /\ pc = "serving"
    /\ \E user_id \in Callers, group_id \in GroupIds :
            /\ req' = Request("view", user_id, group_id, <<>>)
            /\ Respond(FacilitatorLearnerGroupViewHandler_get(
                           learner_groups, user_id, group_id),
                       {}, {})

\* GET to LearnerGroupStudentProgressHandler.
StudentProgress ==
    /\ pc = "serving"
    /\ \E user_id \in Callers, group_id \in GroupIds,
          i \in 1..Len(UsernameListPool) :
            /\ req' = Request("progress", user_id, group_id, UsernameListPool[i])
            /\ Respond(LearnerGroupStudentProgressHandler_get(
                           learner_groups, sharing, progress, group_id,
                           UsernameListPool[i]),
                       {}, {})

\* GET to LearnerGroupSearchStudentHandler.
SearchStudent ==
    /\ pc = "serving"
    /\ \E user_id \in Callers, group_id \in GroupIds \cup {""},
          username \in Usernames :
            /\ req' = Request("search", user_id, group_id, username)
            /\ Respond(LearnerGroupSearchStudentHandler_get(
                           learner_groups, user_id, username, group_id),
                       {}, {})

\* GET to FacilitatorDashboardPage.
FacilitatorDashboard ==
    /\ pc = "serving"
    /\ \E user_id \in Callers :
            /\ req' = Request("dashboard_page", user_id, None, <<>>)
            /\ Respond(FacilitatorDashboardPage_get(
                           learner_groups, LEARNER_GROUPS_ARE_ENABLED),
                       {}, {})

\* GET to CreateLearnerGroupPage.
CreateLearnerGroupPage ==
    /\ pc = "serving"
    /\ \E user_id \in Callers :
            /\ req' = Request("create_page", user_id, None, <<>>)
            /\ Respond(CreateLearnerGroupPage_get(
                           learner_groups, LEARNER_GROUPS_ARE_ENABLED),
                       {}, {})

(***************************************************************************)
(* core/constants.py: texts                                                *)
(*                                                                         *)
(* A text is a sequence of tokens.  The tokens the code looks at stand for *)
(* themselves: "{", "}", the newline, and the comment opener "  //" (two   *)
(* spaces and two slashes).  A key token such as "A:" is a quoted key with *)
(* its colon, "1" and "2" are numbers, "," is the comma, and any other     *)
(* token is text without a brace, a newline or a comment opener.           *)
(***************************************************************************)

NL == "\n"

CommentOpener == "  //"

KeyTokens == {"A:", "B:", "keys:"}

\* The key a key token quotes.
KeyOf(token) ==
    CASE token = "A:" -> "A"
      [] token = "B:" -> "B"
      [] token = "keys:" -> "keys"

NumberTokens == {"1", "2"}

\* The index of the first newline of text at or after i, 0 when there is none.
RECURSIVE NextNewline(_, _)
NextNewline(text, i) ==
    IF i > Len(text) THEN 0
    ELSE IF text[i] = NL THEN i
    ELSE NextNewline(text, i + 1)

\* re.sub(r'  //.*\n', r'', text) from position i on: a comment opener with a
\* newline after it is dropped together with everything up to and including
\* the first such newline; everything else is kept.
RECURSIVE RemoveCommentsFrom(_, _)
RemoveCommentsFrom(text, i) ==
    IF i > Len(text) THEN <<>>
    ELSE IF text[i] = CommentOpener /\ NextNewline(text, i) # 0
    THEN RemoveCommentsFrom(text, NextNewline(text, i) + 1)
    ELSE <<text[i]>> \o RemoveCommentsFrom(text, i + 1)

\* remove_comments.
remove_comments(text) == RemoveCommentsFrom(text, 1)

\* str.find('{\n'): the 0-based index of the first "{" that a newline
\* follows, -1 when there is none.
find_brace_newline(text) ==
    LET hits == {i \in 1..(Len(text) - 1) : text[i] = "{" /\ text[i + 1] = NL}
    IN  IF hits = {} THEN -1
        ELSE (CHOOSE i \in hits : \A j \in hits : i <= j) - 1

\* str.rfind('}'): the 0-based index of the last "}", -1 when there is none.
rfind_brace(text) ==
    LET hits == {i \in 1..Len(text) : text[i] = "}"}
    IN  IF hits = {} THEN -1
        ELSE (CHOOSE i \in hits : \A j \in hits : i >= j) - 1

\* Python's text[start:end] (0-based, end exclusive, a negative index counts
\* from the end of the text).
PySlice(text, start, end) ==
    LET n == Len(text)
        norm(k) == IF k < 0 THEN (IF n + k < 0 THEN 0 ELSE n + k)
                   ELSE (IF k > n THEN n ELSE k)
    IN  SubSeq(text, norm(start) + 1, norm(end))

(***************************************************************************)
(* json.loads on a text.  A parsed value is kept as its tokens without     *)
(* whitespace; a parsed object also as its members, in order.              *)
(***************************************************************************)

ParseFailure == [ok |-> FALSE, next |-> 0, canon |-> <<>>, members |-> <<>>]

\* The index of the first token of text at or after i that is not whitespace.
RECURSIVE SkipWhitespace(_, _)
SkipWhitespace(text, i) ==
    IF i <= Len(text) /\ text[i] = NL THEN SkipWhitespace(text, i + 1) ELSE i

RECURSIVE ParseValue(_, _)
RECURSIVE ParseMembers(_, _, _)

\* The members of an object from the key at i on; acc holds those before it.
ParseMembers(text, i, acc) ==
    IF i > Len(text) \/ text[i] \notin KeyTokens THEN ParseFailure
    ELSE
    LET value == ParseValue(text, SkipWhitespace(text, i + 1))
        after == SkipWhitespace(text, value.next)
        members == Append(acc, [key |-> KeyOf(text[i]), token |-> text[i],
                                value |-> value.canon])
    IN  IF ~value.ok \/ after > Len(text) THEN ParseFailure
        ELSE IF text[after] = ","
        THEN ParseMembers(text, SkipWhitespace(text, after + 1), members)
        ELSE IF text[after] = "}"
        THEN [ok |-> TRUE, next |-> after + 1, canon |-> <<>>,
              members |-> members]
        ELSE ParseFailure

\* The canonical tokens of an object with the given members.
RECURSIVE CanonOfMembers(_)
CanonOfMembers(members) ==
    IF members = <<>> THEN <<>>
    ELSE <<Head(members).token>> \o Head(members).value
         \o (IF Len(members) > 1 THEN <<",">> ELSE <<>>)
         \o CanonOfMembers(Tail(members))

\* The JSON value that starts at i: a number or an object.
ParseValue(text, i) ==
    IF i > Len(text) THEN ParseFailure
    ELSE IF text[i] \in NumberTokens
    THEN [ok |-> TRUE, next |-> i + 1, canon |-> <<text[i]>>, members |-> <<>>]
    ELSE IF text[i] # "{" THEN ParseFailure
    ELSE
    LET first == SkipWhitespace(text, i + 1)
        rest == ParseMembers(text, first, <<>>)
    IN  IF first > Len(text) THEN ParseFailure
        ELSE IF text[first] = "}"
        THEN [ok |-> TRUE, next |-> first + 1, canon |-> <<"{", "}">>,
              members |-> <<>>]
        ELSE IF ~rest.ok THEN ParseFailure
        ELSE [ok |-> TRUE, next |-> rest.next,
              canon |-> <<"{">> \o CanonOfMembers(rest.members) \o <<"}">>,
              members |-> rest.members]

\* The dict of an object's members: a later member replaces an earlier one of
\* the same key.
DictOf(members) ==
    [k \in {members[i].key : i \in DOMAIN members} |->
        LET last == CHOOSE i \in DOMAIN members :
                        /\ members[i].key = k
                        /\ \A j \in DOMAIN members : members[j].key = k => j <= i
        IN  members[last].value]

\* json.loads: [ok, value]; ok is false when the text is not one JSON value
\* (json.JSONDecodeError).  The value of an object is its dict.
json_loads(text) ==
    LET start == SkipWhitespace(text, 1)
        value == ParseValue(text, start)
    IN  IF value.ok /\ SkipWhitespace(text, value.next) > Len(text)
        THEN [ok |-> TRUE, is_object |-> text[start] = "{",
              value |-> DictOf(value.members)]
        ELSE [ok |-> FALSE, is_object |-> FALSE, value |-> <<>>]

\* parse_json_from_ts.
parse_json_from_ts(ts_file_contents) ==
    LET text_without_comments == remove_comments(ts_file_contents)
        json_start == find_brace_newline(text_without_comments)
        json_end == rfind_brace(text_without_comments) + 1
    IN  json_loads(PySlice(text_without_comments, json_start, json_end))

(***************************************************************************)
(* core/constants.py: files and tables                                     *)
(***************************************************************************)

\* A file that is not there, one that is there but cannot be read, and one
\* that holds data.
Missing == [state |-> "missing", data |-> <<>>]

Unreadable == [state |-> "unreadable", data |-> <<>>]

Present(data) == [state |-> "present", data |-> data]

\* The bytes of a text in UTF-8, and the text of such bytes.
utf8_encode(text) == [i \in 1..Len(text) |-> <<"byte", text[i]>>]

utf8_decode(data) == [i \in 1..Len(data) |-> data[i][2]]

\* A faulty read: it does not fall back to the packaged resource.
get_package_file_contents_no_fallback(fs, filepath) ==
    IF fs[filepath].direct.state = "present"
    THEN [error |-> "", contents |-> fs[filepath].direct.data]
    ELSE IF fs[filepath].direct.state # "missing"
    THEN [error |-> "PermissionError", contents |-> <<>>]
    ELSE [error |-> "FileNotFoundError", contents |-> <<>>]

\* get_package_file_contents: [error, contents]; error is "" on success.  The
\* direct file holds text, the packaged resource holds bytes (pkgutil.get_data
\* returns None when there is none).
get_package_file_contents(fs, filepath) ==
    IF fs[filepath].direct.state = "present"
    THEN [error |-> "", contents |-> fs[filepath].direct.data]
    ELSE IF fs[filepath].direct.state # "missing"
    THEN [error |-> "PermissionError", contents |-> <<>>]
    ELSE IF fs[filepath].packaged.state # "present"
    THEN [error |-> "FileNotFoundError", contents |-> <<>>]
    ELSE [error |-> "", contents |-> utf8_decode(fs[filepath].packaged.data)]

\* The names every dict has as attributes (class Constants(dict)); ordinary
\* attribute lookup finds them before __getattr__ is tried.
DictAttributes ==
    {"keys", "values", "items", "get", "pop", "update", "clear", "copy"}

\* The outcome of a lookup or an assignment on a table.
Outcome(kind, value) == [kind |-> kind, value |-> value]

\* dict.__getitem__ on a table: self[name].
getitem(table, name) ==
    IF name \in DOMAIN table THEN Outcome("value", table[name])
    ELSE Outcome("KeyError", <<name>>)

\* Constants.__getattr__.
Constants_getattr(table, name) == getitem(table, name)

\* The attribute read table.name: an attribute of dict when there is one of
\* that name, Constants.__getattr__ otherwise.
attribute_read(table, name) ==
    IF name \in DictAttributes THEN Outcome("bound method", <<name>>)
    ELSE Constants_getattr(table, name)

\* A faulty assignment: the table is left with the assigned name alone.
Constants_setattr_alone(table, name, value) == [k \in {name} |-> value]

\* Constants.__setattr__: self[name] = value.
Constants_setattr(table, name, value) ==
    [k \in DOMAIN table \cup {name} |-> IF k = name THEN value ELSE table[k]]

(***************************************************************************)
(* The assets of the model                                                 *)
(***************************************************************************)

\* How many top-level entries the constants asset has at most.
MaxEntries == 2

\* The values an entry of the asset may have: a number, or an object that
\* spans several lines.
EntryValues == { <<"1">>, <<"{", NL, "B:", "2", NL, "}">> }

TopLevelKeyTokens == {"A:", "keys:"}

\* The entries of an asset: up to MaxEntries key tokens with their values.
EntryLists ==
    UNION { [1..n -> [token : TopLevelKeyTokens, value : EntryValues]] :
            n \in 0..MaxEntries }

\* The lines of the entries from the i-th on; with comments, every entry has
\* a comment line before it and a comment at the end of its own line.
RECURSIVE EntryLines(_, _, _)
EntryLines(entries, i, commented) ==
    IF i > Len(entries) THEN <<>>
    ELSE (IF commented THEN <<CommentOpener, " about the entry", NL>> ELSE <<>>)
         \o <<entries[i].token>> \o entries[i].value
         \o (IF i < Len(entries) THEN <<",">> ELSE <<>>)
         \o (IF commented THEN <<CommentOpener, " more">> ELSE <<>>)
         \o <<NL>>
         \o EntryLines(entries, i + 1, commented)

\* A well-formed constants asset, as assets/constants.ts is laid out: text,
\* then the object from "{" and a newline to "}", then text.
Asset(entries, commented) ==
    <<"/** About this file. */", NL, "export default ", "{", NL>>
    \o EntryLines(entries, 1, commented)
    \o <<"}", " as const;", NL>>

WellFormedAssets ==
    {Asset(entries, commented) : entries \in EntryLists, commented \in BOOLEAN}

\* Assets the loader cannot parse: a comment that takes the newline after the
\* opening brace, a trailing comma, and a text without an object.
MalformedAssets ==
    { <<"export default ", "{", CommentOpener, " c", NL, "A:", "1", NL, "}">>,
      <<"export default ", "{", NL, "A:", "1", ",", NL, "}">>,
      <<"export default ">> }

\* The asset the packaged resource holds in the model.
PackagedAsset == Asset(<<[token |-> "A:", value |-> <<"2">>]>>, TRUE)

\* The contents of assets/release_constants.json in the model.
ReleaseJson == <<"{", NL, "B:", "1", NL, "}", NL>>

\* The assets as they are installed when the server runs.
InstalledFiles ==
    [ constants_ts |->
          [direct |-> Present(Asset(<<[token |-> "A:", value |-> <<"1">>]>>, TRUE)),
           packaged |-> Missing],
      release_constants_json |->
          [direct |-> Present(ReleaseJson), packaged |-> Missing] ]

(***************************************************************************)
(* The process: module initialisation of core/constants.py, then serving   *)
(***************************************************************************)

\* The table names of the module.
Tables == {"constants", "release_constants"}

\* The named table in the current state.
TableOf(name) == IF name = "constants" THEN constants ELSE release_constants

\* The names the model reads on a table, and those it assigns.
LookupNames == {"A", "B", "keys", "get"}

AssignNames == {"A"}

\* An operation on a table, as the state records it.
TableOp(op, table, name) == Request(op, None, None, <<table, name>>)

\* constants = Constants(parse_json_from_ts(get_package_file_contents(
\*     'assets', 'constants.ts'))): the first statement of module initialisation.
LoadConstants ==
    /\ pc = "start"
    /\ LET file == get_package_file_contents(files, "constants_ts")
           parsed == parse_json_from_ts(file.contents)
           error == IF file.error # "" THEN file.error
                    ELSE IF ~parsed.ok THEN "JSONDecodeError"
                    ELSE IF ~parsed.is_object THEN "TypeError"
                    ELSE ""
       IN  /\ req' = TableOp("load", "constants", "constants_ts")
           /\ resp' = [status |-> IF error = "" THEN "OK" ELSE error,
                       body |-> file]
           /\ constants' = IF error = "" THEN parsed.value ELSE constants
           /\ pc' = IF error = "" THEN "constants_loaded" ELSE "crashed"
    /\ calls' = <<>>
    /\ UNCHANGED <<learner_groups, sharing, progress, release_constants, files,
                   deleted, LEARNER_GROUPS_ARE_ENABLED, creator>>

\* release_constants = Constants(json.loads(get_package_file_contents(
\*     'assets', 'release_constants.json'))): the second statement.
LoadReleaseConstants ==
    /\ pc = "constants_loaded"
    /\ LET file == get_package_file_contents(files, "release_constants_json")
           parsed == json_loads(file.contents)
           error == IF file.error # "" THEN file.error
                    ELSE IF ~parsed.ok THEN "JSONDecodeError"
                    ELSE IF ~parsed.is_object THEN "TypeError"
                    ELSE ""
       IN  /\ req' = TableOp("load", "release_constants", "release_constants_json")
           /\ resp' = [status |-> IF error = "" THEN "OK" ELSE error,
                       body |-> file]
           /\ release_constants' =
                  IF error = "" THEN parsed.value ELSE release_constants
           /\ pc' = IF error = "" THEN "serving" ELSE "crashed"
    /\ calls' = <<>>
    /\ UNCHANGED <<learner_groups, sharing, progress, constants, files, deleted,
                   LEARNER_GROUPS_ARE_ENABLED, creator>>

\* The item read table[name].
ReadItem ==
    /\ pc = "serving"
    /\ \E table \in Tables, name \in LookupNames :
          /\ req' = TableOp("getitem", table, name)
          /\ resp' = [status |-> "OK", body |-> getitem(TableOf(table), name)]
    /\ calls' = <<>>
    /\ UNCHANGED <<learner_groups, sharing, progress, constants,
                   release_constants, files, pc, deleted,
                   LEARNER_GROUPS_ARE_ENABLED, creator>>

\* The attribute read table.name.
ReadAttribute ==
    /\ pc = "serving"
    /\ \E table \in Tables, name \in LookupNames :
          /\ req' = TableOp("getattr", table, name)
          /\ resp' = [status |-> "OK",
                      body |-> attribute_read(TableOf(table), name)]
    /\ calls' = <<>>
    /\ UNCHANGED <<learner_groups, sharing, progress, constants,
                   release_constants, files, pc, deleted,
                   LEARNER_GROUPS_ARE_ENABLED, creator>>

\* The attribute assignment table.name = value.
AssignAttribute ==
    /\ pc = "serving"
    /\ \E table \in Tables, name \in AssignNames :
          /\ req' = TableOp("setattr", table, name)
          /\ resp' = [status |-> "OK", body |-> Outcome("assigned", <<"9">>)]
          /\ constants' = IF table = "constants"
                          THEN Constants_setattr(constants, name, <<"9">>)
                          ELSE constants
          /\ release_constants' =
                 IF table = "release_constants"
                 THEN Constants_setattr(release_constants, name, <<"9">>)
                 ELSE release_constants
    /\ calls' = <<>>
    /\ UNCHANGED <<learner_groups, sharing, progress, files, pc, deleted,
                   LEARNER_GROUPS_ARE_ENABLED, creator>>

(***************************************************************************)
(* Specifications                                                          *)
(***************************************************************************)

NoRequest == Request("none", None, None, <<>>)

NoResponse == [status |-> "none", body |-> <<>>]

\* The progress-sharing permissions and the stored progress of the serving
\* model: alice shares her progress with gA, carol with every group.
InstalledSharing ==
    [pair \in UserIds \X GroupIds |->
        \/ pair[1] = "uid_carol"
        \/ pair = <<"uid_alice", "gA">>]

InstalledProgress ==
    [u \in UserIds |->
        IF u = "uid_bob" THEN [stories |-> "all", subtopics |-> "some"]
        ELSE [stories |-> "some", subtopics |-> "none"]]

\* The server after start-up, before its first request.
Init ==
    /\ learner_groups = <<>>
    /\ sharing = InstalledSharing
    /\ progress = InstalledProgress
    /\ files = InstalledFiles
    /\ constants = parse_json_from_ts(
           get_package_file_contents(InstalledFiles, "constants_ts").contents).value
    /\ release_constants = json_loads(
           get_package_file_contents(
               InstalledFiles, "release_constants_json").contents).value
    /\ pc = "serving"
    /\ req = NoRequest
    /\ resp = NoResponse
    /\ calls = <<>>
    /\ deleted = {}
    /\ LEARNER_GROUPS_ARE_ENABLED = FALSE
    /\ creator = <<>>

\* The requests of the learner-group handlers.
Next ==
    \/ CreateLearnerGroup
    \/ UpdateLearnerGroup
    \/ DeleteLearnerGroup
    \/ ViewLearnerGroup
    \/ StudentProgress
    \/ SearchStudent

Spec == Init /\ [][Next]_vars

\* The serving process with the operations on its tables.
NextServe ==
    \/ Next
    \/ ReadItem
    \/ ReadAttribute
    \/ AssignAttribute

SpecServe == Init /\ [][NextServe]_vars

\* The server under either value of the configuration property, which no
\* handler of this file sets.
InitPages ==
    /\ learner_groups = <<>>
    /\ sharing = InstalledSharing
    /\ progress = InstalledProgress
    /\ files = InstalledFiles
    /\ constants = parse_json_from_ts(
           get_package_file_contents(InstalledFiles, "constants_ts").contents).value
    /\ release_constants = json_loads(
           get_package_file_contents(
               InstalledFiles, "release_constants_json").contents).value
    /\ pc = "serving"
    /\ req = NoRequest
    /\ resp = NoResponse
    /\ calls = <<>>
    /\ deleted = {}
    /\ LEARNER_GROUPS_ARE_ENABLED \in BOOLEAN
    /\ creator = <<>>

\* The two pages, served between the requests that create, change and remove
\* groups.
NextPages ==
    \/ CreateLearnerGroup
    \/ UpdateLearnerGroup
    \/ DeleteLearnerGroup
    \/ FacilitatorDashboard
    \/ CreateLearnerGroupPage

SpecPages == InitPages /\ [][NextPages]_vars

\* The progress levels a user may have stored.
ProgressLevels == {"none", "all"}

\* The stores of the progress view: the empty one, and gA as a create
\* followed by an update leaves it.
ProgressStores ==
    {<<>>} \cup
    { LearnerGroupHandler_put(
          CreateLearnerGroupHandler_post(<<>>, "uid_alice", p, "gA").store,
          "uid_alice", "gA", p).store : p \in Payloads }

\* The progress view over every store, permission and stored progress.
InitProgress ==
    /\ learner_groups \in ProgressStores
    /\ sharing \in [UserIds \X {"gA"} -> BOOLEAN]
    /\ progress \in [UserIds -> {[stories |-> l, subtopics |-> l] :
                                    l \in ProgressLevels}]
    /\ files = InstalledFiles
    /\ constants = <<>>
    /\ release_constants = <<>>
    /\ pc = "serving"
    /\ req = NoRequest
    /\ resp = NoResponse
    /\ calls = <<>>
    /\ deleted = {}
    /\ LEARNER_GROUPS_ARE_ENABLED = FALSE
    /\ creator = [g \in DOMAIN learner_groups |-> "uid_alice"]

NextProgress == StudentProgress

SpecProgress == InitProgress /\ [][NextProgress]_vars

\* The file states of the model: of the direct constants asset, of its
\* packaged resource and of the release constants.
DirectStates ==
    {Missing, Unreadable}
    \cup {Present(a) : a \in WellFormedAssets \cup MalformedAssets}

PackagedStates == {Missing, Present(utf8_encode(PackagedAsset))}

ReleaseStates ==
    { [direct |-> Present(ReleaseJson), packaged |-> Missing],
      [direct |-> Missing, packaged |-> Present(utf8_encode(ReleaseJson))],
      [direct |-> Present(<<"1", NL>>), packaged |-> Missing],
      [direct |-> Missing, packaged |-> Missing] }

\* The process before core/constants.py is initialised, over every
\* installation of the assets.
InitConst ==
    /\ learner_groups = <<>>
    /\ sharing = InstalledSharing
    /\ progress = InstalledProgress
    /\ files \in [ constants_ts : [direct : DirectStates, packaged : PackagedStates],
                   release_constants_json : ReleaseStates ]
    /\ constants = <<>>
    /\ release_constants = <<>>
    /\ pc = "start"
    /\ req = NoRequest
    /\ resp = NoResponse
    /\ calls = <<>>
    /\ deleted = {}
    /\ LEARNER_GROUPS_ARE_ENABLED = FALSE
    /\ creator = <<>>

NextConst ==
    \/ LoadConstants
    \/ LoadReleaseConstants
    \/ ReadItem
    \/ ReadAttribute
    \/ AssignAttribute

SpecConst == InitConst /\ [][NextConst]_vars

(***************************************************************************)
(* Properties of the learner-group handlers                                *)
(***************************************************************************)

\* The last request went to one of the handlers that check the facilitator,
\* for a stored group the caller is no facilitator of (the store being the
\* given one).
NonFacilitatorRequest(r, store) ==
    /\ r.handler \in {"put", "delete", "view"}
    /\ r.learner_group_id \in DOMAIN store
    /\ r.user_id \notin Range(store[r.learner_group_id].facilitator_user_ids)

\* The handler called no service that writes to the store.
NoMutatingCall(log) == \A i \in DOMAIN log : log[i].svc \notin MutatingServices

\* C1: a PUT, a DELETE or a facilitator view GET on a stored group by a
\* caller who is not one of its facilitators fails with an Unauthorized
\* error, calls no mutating service, and leaves every stored group (its
\* fields and its existence) exactly as it was before the request.
C1_NonFacilitatorIsRejected ==
    [][ NonFacilitatorRequest(req', learner_groups)
            => /\ resp'.status = "UnauthorizedUserException"
               /\ NoMutatingCall(calls')
               /\ learner_groups' = learner_groups ]_vars

\* C1 happens: a PUT with a new title by a caller who is no facilitator of
\* the stored group was refused.
C1_Witness ==
    /\ NonFacilitatorRequest(req, learner_groups)
    /\ req.handler = "put"
    /\ resp.status = "UnauthorizedUserException"
    /\ learner_groups[req.learner_group_id].title # req.args.group_title

\* C2 as stated: after a successful DELETE the group is not stored, and a
\* later fetch of its id (the progress view's get_learner_group_by_id), with
\* no create of that id in between, fails with a not-found error.
C2_AsStated ==
    /\ deleted \cap DOMAIN learner_groups = {}
    /\ (req.handler = "progress" /\ req.learner_group_id \in deleted)
           => resp.status = "PageNotFoundException"

\* C2, amended: after a successful DELETE the group is not stored, and a
\* later fetch of its id by the progress view, with no create of that id in
\* between, fails with the InvalidInput error 'No such learner group
\* exists.'.
C2_DeletedGroupStaysGone ==
    /\ deleted \cap DOMAIN learner_groups = {}
    /\ (req.handler = "progress" /\ req.learner_group_id \in deleted)
           => /\ resp.status = "InvalidInputException"
              /\ resp.body = [error |-> "No such learner group exists."]

\* C2 happens: the progress view was asked for a group a DELETE had removed.
C2_Witness ==
    /\ req.handler = "progress"
    /\ req.learner_group_id \in deleted
    /\ resp.status = "InvalidInputException"

\* The elements of a sequence of usernames, as a set.
UsernameSet(usernames) == Range(usernames)

\* C3 as stated: the student_usernames of a create response is the same set
\* as the student_usernames of the request.
C3_AsStated ==
    req.handler = "create"
        => UsernameSet(resp.body.student_usernames)
               = UsernameSet(req.args.student_usernames)

\* C3, amended: create never reads the submitted student_usernames; the new
\* group has no students and the response's student_usernames is empty.  It
\* is the submitted invited_student_usernames that are resolved to ids,
\* stored on the new group as its invited students, and resolved back: the
\* response's invited_student_usernames are the stored usernames of the
\* users the submitted ones name (None where a name has no user).
C3_CreateRoundTripsInvitedOnly ==
    req.handler = "create"
        => /\ resp.status = "OK"
           /\ resp.body.student_usernames = <<>>
           /\ learner_groups[req.learner_group_id].student_user_ids = <<>>
           /\ learner_groups[req.learner_group_id].invited_student_user_ids
                  = get_multi_user_ids_from_usernames(
                        req.args.invited_student_usernames)
           /\ Len(resp.body.invited_student_usernames)
                  = Len(req.args.invited_student_usernames)
           /\ \A i \in DOMAIN req.args.invited_student_usernames :
                  LET sent == req.args.invited_student_usernames[i]
                      got == resp.body.invited_student_usernames[i]
                  IN  IF \E u \in UserSettingsModels :
                             lower(u.username) = lower(sent)
                      THEN lower(got) = lower(sent)
                      ELSE got = None

\* C3 happens: a create request that submitted students and invited students
\* was answered.
C3_Witness ==
    /\ req.handler = "create"
    /\ resp.status = "OK"
    /\ req.args.student_usernames # <<>>
    /\ req.args.invited_student_usernames # <<>>
    /\ resp.body.invited_student_usernames # <<>>

\* The exception this file raises for what is not found (the page handlers'
\* raise self.PageNotFoundException).
NotFoundError == "PageNotFoundException"

\* The services that fetch permission or progress data.
ProgressServices ==
    {"get_multi_users_progress_in_stories",
     "get_multi_users_subtopic_pages_progress"}

PermissionServices == {"can_multi_students_share_progress"}

\* The user ids the handler passed to the services of the given set.
IdsPassedTo(log, services) ==
    UNION {Range(log[i].args) : i \in {j \in DOMAIN log : log[j].svc \in services}}

\* The i-th requested student of the progress request in the state has
\* progress sharing for the requested group turned off.
SharingIsOff(i) ==
    LET user_id == get_multi_user_ids_from_usernames(req.args)[i]
        pair == <<user_id, req.learner_group_id>>
    IN  ~(pair \in DOMAIN sharing /\ sharing[pair])

\* The stored progress with that of one user replaced.
ProgressWith(user_id, value) ==
    [u \in DOMAIN progress |-> IF u = user_id THEN value ELSE progress[u]]

\* C4: in an answered progress view, every requested student whose progress
\* sharing for the group is off has a record with that username,
\* progress_sharing_is_turned_on false and empty stories_progress and
\* subtopic_pages_progress; the student's id is passed to neither progress
\* service; and the handler answers the same on every store that differs
\* only in the progress stored for that student.
C4_SharingOffHidesProgress ==
    (req.handler = "progress" /\ resp.status = "OK")
        => \A i \in DOMAIN req.args :
             SharingIsOff(i)
               => LET user_id == get_multi_user_ids_from_usernames(req.args)[i]
                  IN  /\ Len(resp.body.students_progress) = Len(req.args)
                      /\ resp.body.students_progress[i]
                             = [ username |-> req.args[i],
                                 progress_sharing_is_turned_on |-> FALSE,
                                 stories_progress |-> <<>>,
                                 subtopic_pages_progress |-> <<>> ]
                      /\ user_id \notin IdsPassedTo(calls, ProgressServices)
                      /\ \A l \in ProgressLevels, m \in ProgressLevels :
                           user_id \in DOMAIN progress
                             => LET other == LearnerGroupStudentProgressHandler_get(
                                        learner_groups, sharing,
                                        ProgressWith(user_id,
                                            [stories |-> l, subtopics |-> m]),
                                        req.learner_group_id, req.args)
                                IN  /\ other.status = resp.status
                                    /\ other.body = resp.body

\* C4 happens: a progress view of a group with stories and subtopic pages
\* was answered for two students, one sharing progress (and having some),
\* one with stored progress and sharing turned off.
C4_Witness ==
    /\ req.handler = "progress"
    /\ resp.status = "OK"
    /\ Len(req.args) = 2
    /\ learner_groups[req.learner_group_id].story_ids # <<>>
    /\ learner_groups[req.learner_group_id].subtopic_page_ids # <<>>
    /\ \E i, j \in DOMAIN req.args :
          /\ SharingIsOff(i)
          /\ get_multi_user_ids_from_usernames(req.args)[i] \in UserIds
          /\ progress[get_multi_user_ids_from_usernames(req.args)[i]].stories = "all"
          /\ ~SharingIsOff(j)
          /\ resp.body.students_progress[j].stories_progress # <<>>

\* C5 as stated: a progress view of a group id that no stored group has
\* fails with a NotFound error, and fetches no permission or progress data.
C5_AsStated ==
    (req.handler = "progress" /\ req.learner_group_id \notin DOMAIN learner_groups)
        => /\ resp.status = NotFoundError
           /\ IdsPassedTo(calls, ProgressServices \cup PermissionServices) = {}

\* C5, amended: a progress view of a group id that no stored group has fails
\* with the InvalidInput error 'No such learner group exists.' (not with a
\* NotFound error); no permission or progress service is called and the
\* response carries no progress.
C5_MissingGroupIsInvalidInput ==
    (req.handler = "progress" /\ req.learner_group_id \notin DOMAIN learner_groups)
        => /\ resp.status = "InvalidInputException"
           /\ resp.body = [error |-> "No such learner group exists."]
           /\ \A i \in DOMAIN calls :
                  calls[i].svc \notin ProgressServices \cup PermissionServices

\* C5 happens: a progress view named students who share their progress, for a
\* group id that is not stored while another group is.
C5_Witness ==
    /\ req.handler = "progress"
    /\ req.learner_group_id \notin DOMAIN learner_groups
    /\ learner_groups # <<>>
    /\ req.args # <<>>
    /\ resp.status = "InvalidInputException"

\* The searched username of the search request in the state names a user.
SearchedUserExists ==
    \E u \in UserSettingsModels : lower(u.username) = lower(req.args)

\* The searched username is the caller's own, letter case aside.
SearchedUserIsCaller ==
    \E u \in UserSettingsModels :
        u.user_id = req.user_id /\ lower(u.username) = lower(req.args)

\* The search called the invitation-eligibility service.
EligibilityWasAsked ==
    \E i \in DOMAIN calls : calls[i].svc = "can_user_be_invited"

\* C6: a student search for a username no user has answers with success
\* status and the error 'User with username <name> does not exist.'; a search
\* for the caller's own username, letter case aside, answers with success
\* status and the error 'You cannot invite yourself to the group'; the first
\* holds whoever the caller is; in both cases the eligibility service is not
\* called and the profile picture in the body is empty.
C6_SearchReportsUnknownAndSelf ==
    req.handler = "search"
        => /\ ~SearchedUserExists
               => /\ resp.status = "OK"
                  /\ resp.body.error
                         = <<"User with username ", req.args, " does not exist.">>
                  /\ resp.body.username = req.args
                  /\ resp.body.profile_picture_data_url = ""
                  /\ ~EligibilityWasAsked
           /\ (SearchedUserExists /\ SearchedUserIsCaller)
               => /\ resp.status = "OK"
                  /\ resp.body.error = <<"You cannot invite yourself to the group">>
                  /\ resp.body.profile_picture_data_url = ""
                  /\ ~EligibilityWasAsked

\* C6 happens: a caller searched for their own username in another spelling.
C6_Witness ==
    /\ req.handler = "search"
    /\ SearchedUserIsCaller
    /\ req.args # username_of(req.user_id)
    /\ resp.body.error = <<"You cannot invite yourself to the group">>

\* The eligibility service reports a valid invitation of the searched user
\* to the requested group.
InvitationIsValid ==
    \E u \in UserSettingsModels :
        /\ lower(u.username) = lower(req.args)
        /\ can_user_be_invited(learner_groups, u.user_id, u.username,
                               req.learner_group_id).valid

\* C7: every student search answers with success status and a body of
\* exactly the fields username, profile_picture_data_url and error; error is
\* the empty string exactly when the user exists, is not the caller and the
\* eligibility service reports a valid invitation, and exactly then the body
\* carries the user's profile picture (it is empty otherwise).
C7_SearchAlwaysAnswers ==
    req.handler = "search"
        => /\ resp.status = "OK"
           /\ DOMAIN resp.body = {"username", "profile_picture_data_url", "error"}
           /\ LET valid == /\ SearchedUserExists
                           /\ ~SearchedUserIsCaller
                           /\ InvitationIsValid
              IN  /\ (resp.body.error = <<>>) <=> valid
                  /\ valid => \E u \in UserSettingsModels :
                                 /\ lower(u.username) = lower(req.args)
                                 /\ resp.body.profile_picture_data_url
                                        = u.profile_picture_data_url
                                 /\ resp.body.username = u.username
                  /\ ~valid => resp.body.profile_picture_data_url = ""

\* C7 happens: a search for a stored group that has students found a user
\* who may be invited to it and returned the user's picture.
C7_Witness ==
    /\ req.handler = "search"
    /\ req.learner_group_id \in DOMAIN learner_groups
    /\ learner_groups[req.learner_group_id].student_user_ids # <<>>
    /\ resp.body.error = <<>>
    /\ resp.body.profile_picture_data_url # ""

(***************************************************************************)
(* Properties of core/constants.py                                         *)
(***************************************************************************)

\* The file state of the asset the load in the state read.
LoadedFile == files[req.args[2]]

\* C8: get_package_file_contents returns the contents of the direct file
\* when it can be read; returns the contents of the packaged resource when
\* the direct file is missing and the packaged resource exists; and fails
\* with FileNotFoundError exactly when both are missing.
C8_PackageFileContents ==
    req.handler = "load"
        => /\ LoadedFile.direct.state = "present"
               => /\ resp.body.error = ""
                  /\ resp.body.contents = LoadedFile.direct.data
           /\ (LoadedFile.direct.state = "missing"
                   /\ LoadedFile.packaged.state = "present")
               => /\ resp.body.error = ""
                  /\ utf8_encode(resp.body.contents) = LoadedFile.packaged.data
           /\ (resp.body.error = "FileNotFoundError")
               <=> (LoadedFile.direct.state = "missing"
                       /\ LoadedFile.packaged.state = "missing")

\* C8 happens: the direct constants asset was missing, the packaged one was
\* read in its place and parsed.
C8_Witness ==
    /\ req.handler = "load"
    /\ req.args[1] = "constants"
    /\ LoadedFile.direct.state = "missing"
    /\ LoadedFile.packaged.state = "present"
    /\ resp.status = "OK"
    /\ resp.body.contents = PackagedAsset
    /\ constants # <<>>

\* C9 as stated: once the process serves, no operation on a table (item
\* read, attribute read, attribute assignment) and no handler request
\* changes the mapping of either table.
C9_AsStated ==
    [][ pc = "serving"
            => /\ constants' = constants
               /\ release_constants' = release_constants ]_vars

\* C9, amended: once the process serves, no item read, no attribute read and
\* no handler request changes the mapping of either table; an attribute
\* assignment does change it: it binds the assigned name to the assigned
\* value in that table (adding the name when it is new) and keeps every
\* other key, and it leaves the other table alone.
C9_OnlyAssignmentChangesTables ==
    [][ pc = "serving"
            => IF req'.handler = "setattr"
               THEN LET table == req'.args[1]
                        name == req'.args[2]
                        old == TableOf(table)
                        new == IF table = "constants" THEN constants'
                               ELSE release_constants'
                    IN  /\ DOMAIN new = DOMAIN old \cup {name}
                        /\ new[name] = resp'.body.value
                        /\ \A k \in DOMAIN old \ {name} : new[k] = old[k]
                        /\ table = "constants"
                               => release_constants' = release_constants
                        /\ table = "release_constants"
                               => constants' = constants
               ELSE /\ constants' = constants
                    /\ release_constants' = release_constants ]_vars

\* C9 happens: while groups are stored, an attribute assignment added a key
\* to the release constants, whose other key is kept.
C9_Witness ==
    /\ req.handler = "setattr"
    /\ learner_groups # <<>>
    /\ DOMAIN release_constants = {"A", "B"}
    /\ release_constants["A"] = <<"9">>

\* The top-level keys of the object a well-formed asset embeds.
TopLevelKeys(entries) == {KeyOf(entries[i].token) : i \in DOMAIN entries}

\* C10: after the constants table is loaded from a well-formed asset, its
\* key set is the set of top-level keys of the embedded object; for every
\* such key the attribute read and the item read return the same value; and
\* both reads of a name that is no key of the asset fail with an error.
C10_TableMatchesAsset ==
    (req.handler = "load" /\ req.args[1] = "constants"
         /\ files.constants_ts.direct.state = "present")
        => \A entries \in EntryLists, commented \in BOOLEAN :
             files.constants_ts.direct.data = Asset(entries, commented)
               => /\ resp.status = "OK"
                  /\ DOMAIN constants = TopLevelKeys(entries)
                  /\ \A k \in TopLevelKeys(entries) :
                        /\ getitem(constants, k).kind = "value"
                        /\ attribute_read(constants, k) = getitem(constants, k)
                  /\ \A name \in LookupNames \ TopLevelKeys(entries) :
                        /\ getitem(constants, name).kind = "KeyError"
                        /\ attribute_read(constants, name).kind = "KeyError"

\* The part of C10 the code keeps: the same, for the names that are not
\* attributes of dict.
C10_HoldsOffDictAttributes ==
    (req.handler = "load" /\ req.args[1] = "constants"
         /\ files.constants_ts.direct.state = "present")
        => \A entries \in EntryLists, commented \in BOOLEAN :
             files.constants_ts.direct.data = Asset(entries, commented)
               => /\ resp.status = "OK"
                  /\ DOMAIN constants = TopLevelKeys(entries)
                  /\ \A k \in TopLevelKeys(entries) :
                        /\ getitem(constants, k).kind = "value"
                        /\ k \notin DictAttributes
                               => attribute_read(constants, k)
                                      = getitem(constants, k)
                  /\ \A name \in LookupNames \ TopLevelKeys(entries) :
                        /\ getitem(constants, name).kind = "KeyError"
                        /\ name \notin DictAttributes
                               => attribute_read(constants, name).kind
                                      = "KeyError"

(***************************************************************************)
(* Properties of the page handlers                                         *)
(***************************************************************************)

\* The two page requests and the template each one renders.
PageHandlers == {"dashboard_page", "create_page"}

TemplateOf(handler) ==
    IF handler = "dashboard_page"
    THEN "facilitator-dashboard-page.mainpage.html"
    ELSE "create-learner-group-page.mainpage.html"

\* C11: a GET of the facilitator dashboard page or of the create-group page
\* fails with a page-not-found error and renders no template when the
\* learner-groups configuration value is off, and renders the fixed template
\* of that page when it is on; either way it calls no service (so it reads
\* no group) and leaves every stored group, and the configuration value, as
\* they were.
C11_PagesAreGatedAndStatic ==
    [][ req'.handler \in PageHandlers
            => /\ ~LEARNER_GROUPS_ARE_ENABLED
                     => /\ resp'.status = NotFoundError
                        /\ "template" \notin DOMAIN resp'.body
               /\ LEARNER_GROUPS_ARE_ENABLED
                     => /\ resp'.status = "OK"
                        /\ resp'.body = [template |-> TemplateOf(req'.handler)]
               /\ calls' = <<>>
               /\ learner_groups' = learner_groups
               /\ deleted' = deleted
               /\ LEARNER_GROUPS_ARE_ENABLED' = LEARNER_GROUPS_ARE_ENABLED ]_vars

\* C11 happens: with the configuration value off and a group stored, the
\* dashboard page was refused.
C11_Witness ==
    /\ req.handler = "dashboard_page"
    /\ ~LEARNER_GROUPS_ARE_ENABLED
    /\ learner_groups # <<>>
    /\ resp.status = NotFoundError

(***************************************************************************)
(* Properties of update                                                    *)
(***************************************************************************)

\* The group a PUT of payload by user_id leaves under group_id: every field
\* from the request, the usernames resolved to user ids.
ReplacedGroup(group_id, user_id, payload) ==
    [ group_id |-> group_id,
      title |-> payload.group_title,
      description |-> payload.group_description,
      facilitator_user_ids |-> <<user_id>>,
      student_user_ids |->
          get_multi_user_ids_from_usernames(payload.student_usernames),
      invited_student_user_ids |->
          get_multi_user_ids_from_usernames(payload.invited_student_usernames),
      subtopic_page_ids |-> payload.subtopic_page_ids,
      story_ids |-> payload.story_ids ]

\* The arguments of the calls a log holds to the service svc.
ArgsPassedTo(log, svc) == {log[i].args : i \in {j \in DOMAIN log : log[j].svc = svc}}

\* C12: a PUT that succeeds was made by a facilitator of the group and is a
\* full replace: the stored group then has the title, the description, the
\* student list, the invited-student list, the subtopic page ids and the
\* story ids of the request (usernames resolved to user ids) and nothing of
\* what it had; update_learner_group is called once, with the calling user
\* as the only facilitator; and every other group is as it was.
C12_UpdateIsFullReplace ==
    [][ (req'.handler = "put" /\ resp'.status = "OK")
            => LET g == req'.learner_group_id
                   replaced == ReplacedGroup(g, req'.user_id, req'.args)
               IN  /\ is_user_facilitator(learner_groups, req'.user_id, g)
                   /\ DOMAIN learner_groups' = DOMAIN learner_groups
                   /\ learner_groups'[g] = replaced
                   /\ ArgsPassedTo(calls', "update_learner_group")
                          = { <<req'.user_id>>
                                \o replaced.student_user_ids
                                \o replaced.invited_student_user_ids }
                   /\ Cardinality({i \in DOMAIN calls' :
                          calls'[i].svc = "update_learner_group"}) = 1
                   /\ \A h \in DOMAIN learner_groups \ {g} :
                          learner_groups'[h] = learner_groups[h] ]_vars

\* C12 happens: a PUT succeeded on a group that had students, with a second
\* group stored, and the replaced group holds the request's values.
C12_Witness ==
    /\ req.handler = "put"
    /\ resp.status = "OK"
    /\ Cardinality(DOMAIN learner_groups) = 2
    /\ learner_groups[req.learner_group_id]
           = ReplacedGroup(req.learner_group_id, req.user_id, req.args)
    /\ req.args.student_usernames # <<>>
    /\ req.args.invited_student_usernames # <<>>

(***************************************************************************)
(* The facilitator of a group                                              *)
(***************************************************************************)

\* C13: whatever create, update and delete requests were served, every
\* stored group has exactly one facilitator, and it is the user whose create
\* request made the group: no request adds a second facilitator or hands a
\* group to another user.
C13_OneFacilitatorTheCreator ==
    \A g \in DOMAIN learner_groups :
        /\ g \in DOMAIN creator
        /\ learner_groups[g].facilitator_user_ids = <<creator[g]>>

\* C13 happens: two groups with different facilitators are stored, and the
\* last request was a PUT that succeeded and called update_learner_group.
C13_Witness ==
    /\ req.handler = "put"
    /\ resp.status = "OK"
    /\ Cardinality(DOMAIN learner_groups) = 2
    /\ \E g, h \in DOMAIN learner_groups :
          learner_groups[g].facilitator_user_ids
              # learner_groups[h].facilitator_user_ids
    /\ \E i \in DOMAIN calls : calls[i].svc = "update_learner_group"

====
